---- MODULE Spec2Model ----
(***************************************************************************)
(* Model of video_visualizer.py: the colour translator convert_tk_color    *)
(* and the headless frame recorder VideoVisualizer.                        *)
(*                                                                         *)
(* A Python str is a sequence of one-character strings.  A colour returned *)
(* by convert_tk_color is a record: kind "name" carries a str, kind "rgb"  *)
(* carries the tuple (level, level, level) with level = n / 100.0 kept as  *)
(* the integer number of hundredths n.                                     *)
(***************************************************************************)
EXTENDS Integers, Sequences, FiniteSets, TLC

VARIABLES width, height, ppm, frames, window_created, bg_color,
          files, openFigures, lastOp, result,
          calls, okSinceClear, closed, lastAgents,
          token, converted

vars == <<width, height, ppm, frames, window_created, bg_color,
          files, openFigures, lastOp, result,
          calls, okSinceClear, closed, lastAgents,
          token, converted>>

recorderVars == <<width, height, ppm, frames, window_created, bg_color,
                  files, openFigures, calls, okSinceClear, closed>>

colorVars == <<token, converted>>

(* ------------------------------ bounds --------------------------------- *)

MaxCalls == 2
MaxSuffix == 2

(* --------------------------- str helpers ------------------------------- *)

\* Python None passed as the colour argument.
None == <<"<None>">>

\* str.lower() on one character, for the letters that occur in the inputs.
LowerChar(ch) ==
    CASE ch = "G" -> "g"
      [] ch = "R" -> "r"
      [] ch = "A" -> "a"
      [] ch = "E" -> "e"
      [] ch = "Y" -> "y"
      [] ch = "L" -> "l"
      [] ch = "D" -> "d"
      [] OTHER -> ch

\* str.lower()
Lower(s) == [i \in 1..Len(s) |-> LowerChar(s[i])]

Digits == {"0", "1", "2", "3", "4", "5", "6", "7", "8", "9"}

DigitVal(ch) ==
    CASE ch = "0" -> 0 [] ch = "1" -> 1 [] ch = "2" -> 2 [] ch = "3" -> 3
      [] ch = "4" -> 4 [] ch = "5" -> 5 [] ch = "6" -> 6 [] ch = "7" -> 7
      [] ch = "8" -> 8 [] ch = "9" -> 9

\* int(s) for a str of decimal digits
RECURSIVE IntOf(_)
IntOf(s) ==
    IF s = <<>> THEN 0
    ELSE 10 * IntOf(SubSeq(s, 1, Len(s) - 1)) + DigitVal(s[Len(s)])

AllDigits(s) == \A i \in 1..Len(s) : s[i] \in Digits

\* re.match(r'^gr[ae]y(\d+)$', s): the empty sequence when there is no
\* match, otherwise <<group(1)>>.  In Python's re, '$' matches at the end
\* of the string and also just before a newline that ends the string.
GrayMatch(s) ==
    LET n    == Len(s)
        body == IF n >= 1 /\ s[n] = "\n" THEN SubSeq(s, 1, n - 1) ELSE s
        pre(t) == /\ Len(t) >= 5
                  /\ t[1] = "g" /\ t[2] = "r" /\ t[3] \in {"a", "e"} /\ t[4] = "y"
                  /\ AllDigits(SubSeq(t, 5, Len(t)))
    IN  IF pre(s) THEN <<SubSeq(s, 5, Len(s))>>
        ELSE IF pre(body) THEN <<SubSeq(body, 5, Len(body))>>
        ELSE <<>>

Name(s) == [kind |-> "name", name |-> s, level |-> 0]
Rgb(n)  == [kind |-> "rgb", name |-> <<>>, level |-> n]

S_gray      == <<"g", "r", "a", "y">>
S_grey      == <<"g", "r", "e", "y">>
S_light     == <<"l", "i", "g", "h", "t">>
S_dark      == <<"d", "a", "r", "k">>
S_blue      == <<"b", "l", "u", "e">>
S_red       == <<"r", "e", "d">>
S_white     == <<"w", "h", "i", "t", "e">>

\* the dict tk_to_mpl
tk_to_mpl_keys == {S_gray, S_grey, S_light \o S_gray, S_light \o S_grey,
                   S_dark \o S_gray, S_dark \o S_grey}

tk_to_mpl(k) ==
    CASE k = S_gray -> S_gray
      [] k = S_grey -> S_gray
      [] k = S_light \o S_gray -> S_light \o S_gray
      [] k = S_light \o S_grey -> S_light \o S_gray
      [] k = S_dark \o S_gray -> S_dark \o S_gray
      [] k = S_dark \o S_grey -> S_dark \o S_gray

convert_tk_color(color) ==
    IF color = None THEN Name(S_blue)
    ELSE LET m == GrayMatch(Lower(color))
         IN  IF m # <<>> THEN Rgb(IntOf(m[1]))
             ELSE IF Lower(color) \in tk_to_mpl_keys
                  THEN Name(tk_to_mpl(Lower(color)))
                  ELSE Name(color)

(* --------------------------- recorder data ----------------------------- *)

\* hasattr(agent, 'color') is False
NoColorAttr == <<"<no color attribute>">>

\* hasattr(self, 'bg_color') is False: create_window has never been called
Unset == <<"<unset>">>

S_gray80 == S_gray \o <<"8", "0">>

\* Entity snapshots handed over by the world.  malformed: a geometry
\* attribute is missing, so reading it while drawing raises.
Circle(cx, cy, r, col) ==
    [shape |-> "Circle", color |-> col, cx |-> cx, cy |-> cy, r |-> r, ri |-> 0,
     corners |-> <<>>, malformed |-> FALSE]

Ring(cx, cy, ri, ro, col) ==
    [shape |-> "Ring", color |-> col, cx |-> cx, cy |-> cy, r |-> ro, ri |-> ri,
     corners |-> <<>>, malformed |-> FALSE]

Rectangle(cs, col) ==
    [shape |-> "Rectangle", color |-> col, cx |-> 0, cy |-> 0, r |-> 0, ri |-> 0,
     corners |-> cs, malformed |-> FALSE]

Other(col) ==
    [shape |-> "Other", color |-> col, cx |-> 0, cy |-> 0, r |-> 0, ri |-> 0,
     corners |-> <<>>, malformed |-> FALSE]

Malformed(a) == [a EXCEPT !.malformed = TRUE]

\* The entity lists the world passes to update_agents.
Scenes ==
    { <<>>,
      <<Ring(2, 2, 1, 2, S_gray80)>>,
      <<Circle(2, 2, 1, S_white), Ring(2, 2, 1, 2, S_red)>>,
      <<Rectangle(<<<<0, 0>>, <<2, 0>>, <<2, 1>>, <<0, 1>>>>, None),
        Other(S_red), Circle(1, 1, 1, NoColorAttr)>>,
      <<Circle(2, 2, 1, S_red), Malformed(Ring(2, 2, 1, 2, S_white))>> }

\* The arguments callers pass to create_window (the default is 'gray').
BgColors == {S_gray80, S_white}

Paths == {"rollout.mp4"}

Widths  == {4}
Heights == {4}
Ppms    == {1, 2}

NoFile == [exists |-> FALSE, data |-> <<>>]

(* ----------------------------- rendering ------------------------------- *)

\* The pixel grid of a surface: fig.canvas.get_width_height() is
\* (width * ppm, height * ppm); rows are counted from the top.
PixelsOf(g) == (0 .. g.height * g.ppm - 1) \X (0 .. g.width * g.ppm - 1)

\* Pixel centres in units of 1 / (2 * ppm) of a world unit: column c is at
\* x = (c + 1/2) / ppm, row r at y = height - (r + 1/2) / ppm.
PX(p, g) == 2 * p[2] + 1
PY(p, g) == 2 * g.ppm * g.height - (2 * p[1] + 1)

Sq(x) == x * x

\* pixel p lies in the disk of centre (cx, cy) and radius r
InDisk(p, cx, cy, r, g) ==
    LET s == 2 * g.ppm
    IN  Sq(PX(p, g) - s * cx) + Sq(PY(p, g) - s * cy) <= Sq(s * r)

\* pixel p lies in the closed polygon through the corners cs (convex)
InPolygon(p, cs, g) ==
    LET s == 2 * g.ppm
        n == Len(cs)
        nxt(i) == IF i = n THEN 1 ELSE i + 1
        cross(i) == (s * cs[nxt(i)][1] - s * cs[i][1]) * (PY(p, g) - s * cs[i][2])
                    - (s * cs[nxt(i)][2] - s * cs[i][2]) * (PX(p, g) - s * cs[i][1])
    IN  \/ \A i \in 1..n : cross(i) >= 0
        \/ \A i \in 1..n : cross(i) <= 0

\* ax.add_patch of a filled disk, drawn over what is on the canvas
PaintDisk(canvas, cx, cy, r, face, g) ==
    [p \in DOMAIN canvas |-> IF InDisk(p, cx, cy, r, g) THEN face ELSE canvas[p]]

PaintPolygon(canvas, cs, face, g) ==
    [p \in DOMAIN canvas |-> IF InPolygon(p, cs, g) THEN face ELSE canvas[p]]

\* color = convert_tk_color(agent.color if hasattr(agent, 'color') else 'blue')
AgentColor(a) ==
    convert_tk_color(IF a.color = NoColorAttr THEN S_blue ELSE a.color)

InnerFace_default(bgc) == convert_tk_color(S_gray)

\* facecolor of the inner disk of a ring
InnerFace(bgc) == bgc

\* one iteration of the loop over agents
DrawAgent(canvas, a, bgc, g) ==
    CASE a.shape = "Ring" ->
           PaintDisk(PaintDisk(canvas, a.cx, a.cy, a.r, AgentColor(a), g),
                     a.cx, a.cy, a.ri, InnerFace(bgc), g)
      [] a.shape = "Circle" ->
           PaintDisk(canvas, a.cx, a.cy, a.r, AgentColor(a), g)
      [] a.shape = "Rectangle" ->
           PaintPolygon(canvas, a.corners, AgentColor(a), g)
      [] OTHER -> canvas

RECURSIVE DrawAll(_, _, _, _, _)
DrawAll(canvas, agents, i, bgc, g) ==
    IF i > Len(agents) THEN canvas
    ELSE DrawAll(DrawAgent(canvas, agents[i], bgc, g), agents, i + 1, bgc, g)

\* drawing some entity of the list raises
Raises(agents) ==
    \E i \in 1..Len(agents) : agents[i].shape # "Other" /\ agents[i].malformed

\* bg_color = convert_tk_color(self.bg_color if hasattr(self, 'bg_color') else 'gray')
Background(bg) == convert_tk_color(IF bg = Unset THEN S_gray ELSE bg)

\* the frame rasterized from the surface
RenderFrame(agents, bg, g, id) ==
    LET bgc == Background(bg)
    IN  [id |-> id, w |-> g.width * g.ppm, h |-> g.height * g.ppm, bg |-> bgc,
         pixels |-> DrawAll([p \in PixelsOf(g) |-> bgc], agents, 1, bgc, g)]

CaptureFrames_always(fs, f, ok) == Append(fs, f)

CaptureFrames_never(fs, f, ok) == fs

CaptureFrames_first(fs, f, ok) == IF ok THEN <<f>> \o fs ELSE fs

\* self.frames after update_agents: the append is reached only when no
\* statement before it raised
CaptureFrames(fs, f, ok) == IF ok THEN Append(fs, f) ELSE fs

\* open figures after update_agents: plt.subplots opens one, plt.close(fig)
\* is the last statement and is reached only when nothing raised
FiguresAfterCapture(n, ok) == IF ok THEN n ELSE n + 1

SaveWrites_always(fs) == TRUE

\* save_video / save_gif: 'if not self.frames: return' before mimsave
SaveWrites(fs) == fs # <<>>

WrittenFrames_tail(fs) == Tail(fs)

\* the frames handed to imageio.mimsave
WrittenFrames(fs) == fs

ClearedFrames_keepLast(fs) == IF fs = <<>> THEN fs ELSE <<fs[Len(fs)]>>

\* self.frames = []
ClearedFrames(fs) == <<>>

(* ------------------------------ actions -------------------------------- *)

Geometry == [width |-> width, height |-> height, ppm |-> ppm]

\* VideoVisualizer(width, height, ppm)
Init ==
    /\ width \in Widths
    /\ height \in Heights
    /\ ppm \in Ppms
    /\ frames = <<>>
    /\ window_created = FALSE
    /\ bg_color = Unset
    /\ files = [p \in Paths |-> NoFile]
    /\ openFigures = 0
    /\ lastOp = "__init__"
    /\ result = "ok"
    /\ calls = 0
    /\ okSinceClear = <<>>
    /\ closed = FALSE
    /\ lastAgents = <<>>
    /\ token = None
    /\ converted = Name(<<>>)

create_window ==
    \E c \in BgColors :
        /\ bg_color' = c
        /\ window_created' = TRUE
        /\ closed' = FALSE
        /\ lastOp' = "create_window"
        /\ result' = "ok"
        /\ UNCHANGED <<width, height, ppm, frames, files, openFigures, calls,
                       okSinceClear, lastAgents, token, converted>>

update_agents ==
    \E agents \in Scenes :
        LET ok == ~Raises(agents)
            f  == RenderFrame(agents, bg_color, Geometry, calls + 1)
        IN  /\ calls < MaxCalls
            /\ calls' = calls + 1
            /\ lastAgents' = agents
            /\ frames' = CaptureFrames(frames, f, ok)
            /\ openFigures' = FiguresAfterCapture(openFigures, ok)
            /\ okSinceClear' = IF ok THEN Append(okSinceClear, calls + 1)
                                     ELSE okSinceClear
            /\ lastOp' = "update_agents"
            /\ result' = IF ok THEN "ok" ELSE "raised"
            /\ UNCHANGED <<width, height, ppm, window_created, bg_color, files,
                           closed, token, converted>>

\* the body shared by save_video and save_gif; encoded: imageio.mimsave
\* returned normally
Save(op, filename, encoded) ==
    /\ lastOp' = op
    /\ IF ~SaveWrites(frames)
       THEN /\ result' = "ok"
            /\ files' = files
       ELSE IF encoded
            THEN /\ result' = "ok"
                 /\ files' = [files EXCEPT ![filename] =
                                 [exists |-> TRUE, data |-> WrittenFrames(frames)]]
            ELSE /\ result' = "raised"
                 /\ files' = files
    /\ UNCHANGED <<width, height, ppm, frames, window_created, bg_color,
                   openFigures, calls, okSinceClear, closed, lastAgents,
                   token, converted>>

save_video == \E filename \in Paths, encoded \in BOOLEAN :
                  Save("save_video", filename, encoded)

save_gif == \E filename \in Paths, encoded \in BOOLEAN :
                Save("save_gif", filename, encoded)

close ==
    /\ window_created' = FALSE
    /\ closed' = TRUE
    /\ lastOp' = "close"
    /\ result' = "ok"
    /\ UNCHANGED <<width, height, ppm, frames, bg_color, files, openFigures,
                   calls, okSinceClear, lastAgents, token, converted>>

clear_frames ==
    /\ frames' = ClearedFrames(frames)
    /\ okSinceClear' = <<>>
    /\ lastOp' = "clear_frames"
    /\ result' = "ok"
    /\ UNCHANGED <<width, height, ppm, window_created, bg_color, files,
                   openFigures, calls, closed, lastAgents, token, converted>>

Next ==
    \/ create_window
    \/ update_agents
    \/ save_video
    \/ save_gif
    \/ close
    \/ clear_frames

Spec == Init /\ [][Next]_vars

(* ------------------- the colour translator on its own ------------------ *)

Stems ==
    { <<>>, S_gray, S_grey, <<"G", "r", "A", "y">>, <<"G", "R", "E", "Y">>,
      <<"g", "r", "y">>, S_grey \o <<"1">>, S_light \o S_gray,
      <<"L", "i", "g", "h", "t">> \o <<"G", "r", "e", "y">>,
      S_dark \o S_grey, <<"D", "a", "r", "k">> \o S_gray,
      <<"#", "f">>, S_red }

SuffixChars == {"0", "5", "7", "\n", "x"}

RECURSIVE SeqsUpTo(_, _)
SeqsUpTo(S, n) ==
    IF n = 0 THEN {<<>>}
    ELSE LET shorter == SeqsUpTo(S, n - 1)
         IN  shorter \cup {Append(s, c) : s \in shorter, c \in S}

Tokens == {None} \cup {st \o su : st \in Stems, su \in SeqsUpTo(SuffixChars, MaxSuffix)}

InitColor ==
    /\ width \in Widths
    /\ height \in Heights
    /\ ppm \in Ppms
    /\ frames = <<>>
    /\ window_created = FALSE
    /\ bg_color = Unset
    /\ files = [p \in Paths |-> NoFile]
    /\ openFigures = 0
    /\ lastOp = "__init__"
    /\ result = "ok"
    /\ calls = 0
    /\ okSinceClear = <<>>
    /\ closed = FALSE
    /\ lastAgents = <<>>
    /\ token = None
    /\ converted = Name(<<>>)

ConvertColor ==
    \E t \in Tokens :
        /\ token' = t
        /\ converted' = convert_tk_color(t)
        /\ lastOp' = "convert_tk_color"
        /\ result' = "ok"
        /\ UNCHANGED <<recorderVars, lastAgents>>

NextColor == ConvertColor

SpecColor == InitColor /\ [][NextColor]_vars

(* ------------------------------ claims --------------------------------- *)

SaveOps == {"save_video", "save_gif"}

\* the last frame of the buffer
LastFrame == frames[Len(frames)]

\* the extent an entity is drawn over: a ring is the band between its radii
Covers(a, p, g) ==
    CASE a.shape = "Ring" -> InDisk(p, a.cx, a.cy, a.r, g) /\ ~InDisk(p, a.cx, a.cy, a.ri, g)
      [] a.shape = "Circle" -> InDisk(p, a.cx, a.cy, a.r, g)
      [] a.shape = "Rectangle" -> InPolygon(p, a.corners, g)
      [] OTHER -> FALSE

\* everything the patches of an entity touch: a ring touches its outer disk
Touches(a, p, g) ==
    CASE a.shape = "Ring" -> InDisk(p, a.cx, a.cy, a.r, g)
      [] OTHER -> Covers(a, p, g)

Max(S) == CHOOSE x \in S : \A y \in S : y <= x

\* C1: the frame buffer holds exactly the frames of the update_agents calls
\* that returned normally since the last clear_frames, in call order, all of
\* the session's pixel dimensions, and each such call appends exactly one
\* frame behind the frames already there.
C1_FrameBuffer ==
    /\ [](/\ Len(frames) = Len(okSinceClear)
          /\ \A i \in 1..Len(frames) :
                /\ frames[i].id = okSinceClear[i]
                /\ frames[i].w = width * ppm
                /\ frames[i].h = height * ppm
                /\ DOMAIN frames[i].pixels = PixelsOf(Geometry)
          /\ \A i, j \in 1..Len(frames) : i < j => frames[i].id < frames[j].id)
    /\ [][(lastOp' = "update_agents" /\ result' = "ok")
             => (/\ Len(frames') = Len(frames) + 1
                 /\ SubSeq(frames', 1, Len(frames)) = frames
                 /\ frames'[Len(frames')].id = calls')]_vars

\* two successful captures and no failed one: two frames, in call order
C1_Witness ==
    /\ Len(frames) = 2
    /\ frames[1].id < frames[2].id
    /\ openFigures = 0
    /\ lastOp = "update_agents"

\* C2 as stated: an update_agents call made after close() and before a new
\* create_window() appends no frame.
C2_Original ==
    [][(lastOp' = "update_agents" /\ closed /\ ~window_created)
          => frames' = frames]_vars

\* C2 amended: close() only clears the flag and update_agents does not read
\* it; a call made after close() and before a new create_window() appends
\* exactly one frame when drawing completes and none when drawing raises.
C2_Amended ==
    [][(lastOp' = "update_agents" /\ closed /\ ~window_created)
          => /\ window_created' = FALSE
             /\ IF Raises(lastAgents')
                THEN frames' = frames
                ELSE /\ Len(frames') = Len(frames) + 1
                     /\ SubSeq(frames', 1, Len(frames)) = frames]_vars

C2_Witness ==
    /\ closed
    /\ ~window_created
    /\ lastOp = "update_agents"
    /\ result = "ok"
    /\ Len(frames) = 1
    /\ calls = 1

\* C3: save_video and save_gif on an empty buffer write no file, raise
\* nothing and leave the recorder state as it was.
C3_EmptySave ==
    [][(lastOp' \in SaveOps /\ frames = <<>>)
          => /\ files' = files
             /\ result' = "ok"
             /\ UNCHANGED <<frames, window_created, bg_color, width, height, ppm>>]_vars

\* a save after captures were cleared, with no file at the destination
C3_Witness ==
    /\ lastOp \in SaveOps
    /\ frames = <<>>
    /\ calls > 0
    /\ result = "ok"
    /\ \A p \in Paths : ~files[p].exists

\* C4: a save of a non-empty buffer that returns normally writes every
\* buffered frame in buffer order to its destination and leaves the buffer
\* as it was; the file holds as many frames as captures since the last clear.
C4_Save ==
    [][(lastOp' \in SaveOps /\ frames # <<>> /\ result' = "ok")
          => /\ frames' = frames
             /\ \E p \in Paths :
                   /\ files'[p].exists
                   /\ files'[p].data = frames
                   /\ Len(files'[p].data) = Len(okSinceClear)
                   /\ \A q \in Paths \ {p} : files'[q] = files[q]]_vars

C4_Witness ==
    /\ lastOp = "save_gif"
    /\ result = "ok"
    /\ Len(frames) = 2
    /\ \E p \in Paths : files[p].exists /\ files[p].data = frames

\* C5: clear_frames empties the buffer and changes nothing else, and a
\* capture right after it leaves exactly one frame, of the session's
\* dimensions and on the stored background.
C5_Clear ==
    [][/\ (lastOp' = "clear_frames")
             => /\ frames' = <<>>
                /\ UNCHANGED <<width, height, ppm, bg_color, window_created>>
       /\ (lastOp = "clear_frames" /\ lastOp' = "update_agents" /\ result' = "ok")
             => /\ Len(frames') = 1
                /\ frames'[1].w = width * ppm
                /\ frames'[1].h = height * ppm
                /\ frames'[1].bg = Background(bg_color)]_vars

\* two successful captures, a clear between them: one frame, of call 2
C5_Witness ==
    /\ lastOp = "update_agents"
    /\ result = "ok"
    /\ calls = 2
    /\ openFigures = 0
    /\ Len(frames) = 1
    /\ frames[1].id = 2

\* the reference convert_tk_color is compared to in C6
IsGrayNumber(t) ==
    /\ Len(t) >= 5
    /\ Lower(SubSeq(t, 1, 4)) \in {S_gray, S_grey}
    /\ AllDigits(SubSeq(t, 5, Len(t)))

GraySpelling(s) ==
    [i \in 1..Len(s) |-> IF i = Len(s) - 1 /\ s[i] = "e" THEN "a" ELSE s[i]]

RefConvert(t) ==
    IF t = None THEN Name(S_blue)
    ELSE IF IsGrayNumber(t) THEN Rgb(IntOf(SubSeq(t, 5, Len(t))))
    ELSE IF Lower(t) \in {S_gray, S_grey, S_light \o S_gray, S_light \o S_grey,
                          S_dark \o S_gray, S_dark \o S_grey}
         THEN Name(GraySpelling(Lower(t)))
         ELSE Name(t)

\* C6: convert_tk_color agrees with the reference on every token: None gives
\* 'blue', gray/grey followed only by digits n gives (n/100, n/100, n/100),
\* the six gray names give the name in the 'gray' spelling, and every other
\* token is returned unchanged.
C6_Reference ==
    lastOp = "convert_tk_color" => converted = RefConvert(token)

\* C7: when drawing an entity raises, the call raises and the frame buffer
\* is the same as before the call.
C7_FailedCapture ==
    [][(lastOp' = "update_agents" /\ Raises(lastAgents'))
          => /\ result' = "raised"
             /\ frames' = frames]_vars

\* a capture that raised on its second entity, after one that succeeded
C7_Witness ==
    /\ lastOp = "update_agents"
    /\ result = "raised"
    /\ Len(lastAgents) = 2
    /\ lastAgents[2].malformed
    /\ Len(frames) = 1

\* C8: in a captured frame, where a ring is the last entity drawn at a
\* pixel, the pixel is the background colour of that capture within the
\* inner radius and the ring's colour between the radii; the background is
\* the converted colour stored by the latest create_window ('gray' if none).
C8_Ring ==
    (lastOp = "update_agents" /\ result = "ok") =>
        LET f == LastFrame
            g == Geometry
            B == convert_tk_color(IF bg_color = Unset THEN S_gray ELSE bg_color)
        IN  /\ f.bg = B
            /\ \A p \in DOMAIN f.pixels :
               \A i \in 1..Len(lastAgents) :
                  LET a == lastAgents[i]
                  IN  (/\ a.shape = "Ring"
                       /\ a.ri < a.r
                       /\ \A j \in (i + 1)..Len(lastAgents) : ~Touches(lastAgents[j], p, g))
                      => /\ InDisk(p, a.cx, a.cy, a.ri, g) => f.pixels[p] = B
                         /\ (InDisk(p, a.cx, a.cy, a.r, g) /\ ~InDisk(p, a.cx, a.cy, a.ri, g))
                               => f.pixels[p] = AgentColor(a)

\* a ring captured after create_window changed the background between two
\* captures, with pixels inside the hole and pixels on the band
C8_Witness ==
    /\ lastOp = "update_agents"
    /\ result = "ok"
    /\ Len(frames) = 2
    /\ frames[1].bg # frames[2].bg
    /\ Len(lastAgents) >= 1
    /\ lastAgents[Len(lastAgents)].shape = "Ring"
    /\ \E p \in DOMAIN frames[2].pixels :
          InDisk(p, lastAgents[Len(lastAgents)].cx, lastAgents[Len(lastAgents)].cy,
                 lastAgents[Len(lastAgents)].ri, Geometry)
    /\ \E p \in DOMAIN frames[2].pixels : Covers(lastAgents[Len(lastAgents)], p, Geometry)

\* C9: a capture whose entities all draw completes, and in its frame every
\* pixel has the colour of the latest entity of recognized shape in the list
\* that covers it, the background where none covers it; entities of no
\* recognized shape contribute no pixels.
C9_ZOrder ==
    (lastOp = "update_agents" /\ ~Raises(lastAgents)) =>
        /\ result = "ok"
        /\ LET f == LastFrame
               g == Geometry
           IN  \A p \in DOMAIN f.pixels :
                  LET cov == {i \in 1..Len(lastAgents) : Covers(lastAgents[i], p, g)}
                  IN  f.pixels[p] = IF cov = {} THEN f.bg
                                    ELSE AgentColor(lastAgents[Max(cov)])

\* C10: no rendering surface stays open after any sequence of captures.
C10_NoOpenFigure == openFigures = 0

====
